---- MODULE Spec2Model ----
(***************************************************************************)
(* Model of src/alg/mod.rs of img_hash: the algorithm dispatcher           *)
(* HashAlg::hash_image, the dimension helpers round_hash_size and          *)
(* resize_dimensions, and the luma comparison primitives (mean, median,    *)
(* gradient, vertical gradient, double gradient) in their u8 and f32       *)
(* forms.                                                                  *)
(*                                                                         *)
(* Three specifications share the variables:                               *)
(*   Spec       one call of hash_image, statement by statement;            *)
(*   SpecPrim   one comparison primitive applied to an arbitrary buffer    *)
(*              and rowstride, followed by the packer;                     *)
(*   SpecRound  one call of round_hash_size on u32 inputs.                 *)
(*                                                                         *)
(* A call that panics yields Panic(msg); a call that returns yields Ok(v). *)
(* f32 samples are integer valued (every such value below 2^24 is an exact *)
(* f32); a quotient of them is kept as the exact fraction num/den, and     *)
(* den = 0 is the NaN that 0.0 / 0.0 gives.                                *)
(***************************************************************************)
EXTENDS Integers, Sequences, FiniteSets, TLC

VARIABLES alg, width, height, bit_order, build, pc, err, calls, image,
          post_gauss, grayscale, resize, blockhash_img, hash_vals, rowstride,
          bools, hash, shift, bools_shifted, rounded

vars == <<alg, width, height, bit_order, build, pc, err, calls, image,
          post_gauss, grayscale, resize, blockhash_img, hash_vals, rowstride,
          bools, hash, shift, bools_shifted, rounded>>

----------------------------------------------------------------------------
(* Bounds of the model *)

\* requested hash width and height range over 1..MaxDim (Spec)
MaxDim == 3
\* exhaustive sample buffers have 0..MaxLen samples (SpecPrim)
MaxLen == 4
\* samples of the exhaustive buffers range over 0..MaxSample
MaxSample == 2
\* rowstrides handed to a gradient primitive range over 0..MaxStride (SpecPrim)
MaxStride == 3
\* uniform brightness shifts range over 0..MaxShift (SpecPrim)
MaxShift == 1
\* small inputs of round_hash_size range over 0..MaxRoundIn (SpecRound)
MaxRoundIn == 4
\* the TopSpan largest u32 values are inputs of round_hash_size too
TopSpan == 4

(* Program constants *)

\* `as u8` keeps the low 8 bits
U8Modulus == 256

----------------------------------------------------------------------------
(* Types *)

HashAlg == {"Mean", "Median", "Gradient", "VertGradient", "DoubleGradient", "Blockhash"}

BitOrder == {"LsbFirst", "MsbFirst"}

\* overflow checks on (debug profile: x + 1 panics) or off (release: it wraps)
Builds == {"debug", "release"}

Ok(v) == [ok |-> TRUE, val |-> v, msg |-> ""]

Panic(m) == [ok |-> FALSE, val |-> <<>>, msg |-> m]

Min(a, b) == IF a <= b THEN a ELSE b

RECURSIVE Sum(_)
Sum(s) == IF Len(s) = 0 THEN 0 ELSE Head(s) + Sum(Tail(s))

RECURSIVE Flatten(_)
Flatten(ss) == IF Len(ss) = 0 THEN <<>> ELSE Head(ss) \o Flatten(Tail(ss))

----------------------------------------------------------------------------
(* Dimension helpers *)

\* a u32 is kept as two 16-bit limbs, value hi * 2^16 + lo
Limb == 2 ^ 16

u32(n) == [hi |-> n \div Limb, lo |-> n % Limb]

U32Max == [hi |-> Limb - 1, lo |-> Limb - 1]

\* `x as usize`, for the values small enough to size a buffer
as_usize(x) == x.hi * Limb + x.lo

\* x + n on u32, 0 <= n < 2^16: panics with overflow checks, wraps without
add_u32(x, n, b) ==
    LET lo == x.lo + n
        hi == x.hi + (lo \div Limb)
    IN  IF hi < Limb THEN Ok([hi |-> hi, lo |-> lo % Limb])
        ELSE IF b = "debug" THEN Panic("attempt to add with overflow")
        ELSE Ok([hi |-> hi % Limb, lo |-> lo % Limb])

\* x / 2 on u32
half_u32(x) == [hi |-> x.hi \div 2, lo |-> (x.lo + (x.hi % 2) * Limb) \div 2]

\* (x + 1) & !1
next_multiple_of_2(x, b) ==
    LET s == add_u32(x, 1, b)
    IN  IF s.ok THEN Ok([s.val EXCEPT !.lo = @ - (@ % 2)]) ELSE s

\* (x + 3) & !3
next_multiple_of_4(x, b) ==
    LET s == add_u32(x, 3, b)
    IN  IF s.ok THEN Ok([s.val EXCEPT !.lo = @ - (@ % 4)]) ELSE s

Pair(a, b) ==
    IF ~a.ok THEN a ELSE IF ~b.ok THEN b ELSE Ok(<<a.val, b.val>>)

round_hash_size(a, w, h, b) ==
    CASE a = "DoubleGradient" -> Pair(next_multiple_of_2(w, b), next_multiple_of_2(h, b))
      [] a = "Blockhash"      -> Pair(next_multiple_of_4(w, b), next_multiple_of_4(h, b))
      [] OTHER                -> Ok(<<w, h>>)

resize_dimensions(a, w, h, b) ==
    CASE a = "Mean"           -> Ok(<<w, h>>)
      [] a = "Median"         -> Ok(<<w, h>>)
      [] a = "Blockhash"      -> Panic("Blockhash algorithm does not resize")
      [] a = "Gradient"       -> Pair(add_u32(w, 1, b), Ok(h))
      [] a = "VertGradient"   -> Pair(Ok(w), add_u32(h, 1, b))
      [] a = "DoubleGradient" -> Pair(add_u32(half_u32(w), 1, b), add_u32(half_u32(h), 1, b))

----------------------------------------------------------------------------
(* Luma comparison primitives *)

mean_hash_u8_short_len(luma) ==
    IF Len(luma) = 0 THEN Panic("attempt to divide by zero")
    ELSE LET mean == (Sum(luma) \div (Len(luma) + 1)) % U8Modulus
         IN  Ok([i \in 1..Len(luma) |-> luma[i] >= mean])

mean_hash_u8_strict(luma) ==
    IF Len(luma) = 0 THEN Panic("attempt to divide by zero")
    ELSE LET mean == (Sum(luma) \div Len(luma)) % U8Modulus
         IN  Ok([i \in 1..Len(luma) |-> luma[i] > mean])

\* (sum::<u32>() / len as u32) as u8: the u32 sum cannot overflow below 2^24 samples
mean_hash_u8(luma) ==
    IF Len(luma) = 0 THEN Panic("attempt to divide by zero")
    ELSE LET mean == (Sum(luma) \div Len(luma)) % U8Modulus
         IN  Ok([i \in 1..Len(luma) |-> luma[i] >= mean])

f32(v) == [num |-> v, den |-> 1]

f32_div(x, n) == [num |-> x.num, den |-> x.den * n]

f32_add(x, y) == [num |-> x.num * y.den + y.num * x.den, den |-> x.den * y.den]

\* x >= y on f32: false when either side is NaN
f32_ge(x, y) ==
    IF x.den = 0 \/ y.den = 0 THEN FALSE ELSE x.num * y.den >= y.num * x.den

mean_hash_f32(luma) ==
    LET mean == f32_div(f32(Sum(luma)), Len(luma))
    IN  Ok([i \in 1..Len(luma) |-> f32_ge(f32(luma[i]), mean)])

\* numbers.to_owned() sorted ascending
sorted_copy(numbers) == SortSeq(numbers, LAMBDA a, b : a < b)

\* sorted[mid - 1] on an empty vector: mid - 1 overflows usize (panic with
\* overflow checks) or wraps to an index out of range (panic without)
median_f32(numbers) ==
    LET sorted == sorted_copy(numbers)
        mid == Len(sorted) \div 2
    IN  IF Len(sorted) % 2 = 0
        THEN IF mid = 0 THEN Panic("index out of bounds")
             ELSE Ok(f32_div(f32_add(f32(sorted[mid]), f32(sorted[mid + 1])), 2))
        ELSE Ok(f32(sorted[mid + 1]))

median_u8_upper(numbers) ==
    LET sorted == sorted_copy(numbers)
        mid == Len(sorted) \div 2
    IN  IF Len(sorted) % 2 = 0
        THEN IF mid = 0 THEN Panic("index out of bounds")
             ELSE Ok(sorted[mid + 1])
        ELSE Ok(sorted[mid + 1])

\* ((a as u16 + b as u16) / 2) as u8
median_u8(numbers) ==
    LET sorted == sorted_copy(numbers)
        mid == Len(sorted) \div 2
    IN  IF Len(sorted) % 2 = 0
        THEN IF mid = 0 THEN Panic("index out of bounds")
             ELSE Ok(((sorted[mid] + sorted[mid + 1]) \div 2) % U8Modulus)
        ELSE Ok(sorted[mid + 1])

median_hash_u8(luma) ==
    LET med == median_u8(luma)
    IN  IF ~med.ok THEN med
        ELSE Ok([i \in 1..Len(luma) |-> luma[i] >= med.val])

median_hash_f32(luma) ==
    LET med == median_f32(luma)
    IN  IF ~med.ok THEN med
        ELSE Ok([i \in 1..Len(luma) |-> f32_ge(f32(luma[i]), med.val)])

\* iter.skip(n)
Skip(s, n) == SubSeq(s, n + 1, Len(s))

\* a.zip(b): stops with the shorter one
Zip(a, b) == [i \in 1..Min(Len(a), Len(b)) |-> <<a[i], b[i]>>]

\* slice.chunks(n), n > 0: the last chunk may be short
Chunks(s, n) ==
    [k \in 1..((Len(s) + n - 1) \div n) |-> SubSeq(s, (k - 1) * n + 1, Min(k * n, Len(s)))]

\* iter.step_by(n), n > 0
StepBy(s, n) == [k \in 1..((Len(s) + n - 1) \div n) |-> s[(k - 1) * n + 1]]

\* luma.clone().into_iter().skip(1).zip(luma).map(|(this, last)| last < this)
gradient_hash_impl(luma) ==
    LET pairs == Zip(Skip(luma, 1), luma)
    IN  [i \in 1..Len(pairs) |-> pairs[i][2] < pairs[i][1]]

\* chunks(0) panics
gradient_hash(luma, rs) ==
    IF rs = 0 THEN Panic("chunk size must be non-zero")
    ELSE LET rows == Chunks(luma, rs)
         IN  Ok(Flatten([k \in 1..Len(rows) |-> gradient_hash_impl(rows[k])]))

\* luma[col_start..] panics when col_start > luma.len(); the range 0..0 is empty
vert_gradient_hash(luma, rs) ==
    IF \E col_start \in 0..(rs - 1) : col_start > Len(luma)
    THEN Panic("range start index out of range for slice")
    ELSE Ok(Flatten([c \in 1..rs |->
                gradient_hash_impl(StepBy(Skip(luma, c - 1), rs))]))

double_gradient_hash_swapped(luma, rs) ==
    LET g == gradient_hash(luma, rs)
        v == vert_gradient_hash(luma, rs)
    IN  IF ~g.ok THEN g ELSE IF ~v.ok THEN v ELSE Ok(v.val \o g.val)

\* gradient_hash(..).chain(vert_gradient_hash(..))
double_gradient_hash(luma, rs) ==
    LET g == gradient_hash(luma, rs)
        v == vert_gradient_hash(luma, rs)
    IN  IF ~g.ok THEN g ELSE IF ~v.ok THEN v ELSE Ok(g.val \o v.val)

----------------------------------------------------------------------------
(* Collaborators of the dispatcher *)

\* an image: whose pixels, and which preprocessing steps produced it
Original == [id |-> "caller", blurred |-> FALSE, gray |-> FALSE]

NoImage == [id |-> "none", blurred |-> FALSE, gray |-> FALSE]

\* HashCtxt::gauss_preproc: the input borrowed, or an owned blurred image
gauss_preproc(img, blur) ==
    IF blur THEN [tag |-> "Owned", img |-> [img EXCEPT !.blurred = TRUE]]
    ELSE [tag |-> "Borrowed", img |-> img]

\* CowImage::to_grayscale
to_grayscale(cow) == [cow.img EXCEPT !.gray = TRUE]

\* HashCtxt::calc_hash_vals: resize_width * resize_height samples, u8 or f32
calc_hash_vals(w, h) ==
    { [repr |-> r,
       data |-> [i \in 1..(w * h) |-> (a * i + b) % (MaxSample + 1)]] :
         r \in {"Bytes", "Floats"}, a \in 0..MaxSample, b \in 0..MaxSample }

\* blockhash::blockhash: an uninterpreted function of its four arguments
blockhash(img, w, h, order) ==
    [by |-> "blockhash", img |-> img, width |-> w, height |-> h, order |-> order,
     bits |-> 0, bytes |-> <<>>]

\* the bit that the i-th boolean (from 0) takes in its byte
bit_of(i, order) == IF order = "LsbFirst" THEN i % 8 ELSE 7 - (i % 8)

\* BitSet::from_bools
from_bools(bs, order) ==
    [by |-> "from_bools", img |-> NoImage, width |-> u32(0), height |-> u32(0),
     order |-> order,
     bits |-> Len(bs),
     bytes |-> [j \in 1..((Len(bs) + 7) \div 8) |->
                  Sum([k \in 1..8 |->
                        LET i == (j - 1) * 8 + (k - 1)
                        IN  IF i < Len(bs) /\ bs[i + 1]
                            THEN 2 ^ bit_of(i, order) ELSE 0])]]

----------------------------------------------------------------------------
(* hash_image *)

short_circuit_never(a) == FALSE

\* if *self == Blockhash
short_circuit(a) == a = "Blockhash"

blockhash_arg_original(cow, img) == img

\* Borrowed(img) => blockhash(img, ..), Owned(img) => blockhash(&img, ..)
blockhash_arg(cow, img) == cow.img

HashImageOrder_resize_early ==
    <<"gauss_preproc", "resize_dimensions", "to_grayscale", "calc_hash_vals",
      "compare", "from_bools", "done">>

\* the statements of hash_image after the Blockhash return, in program order
HashImageOrder ==
    <<"gauss_preproc", "to_grayscale", "resize_dimensions", "calc_hash_vals",
      "compare", "from_bools", "done">>

After(stmt) ==
    HashImageOrder[(CHOOSE i \in 1..Len(HashImageOrder) : HashImageOrder[i] = stmt) + 1]

\* match (*self, hash_vals)
compare(a, vals, rs) ==
    CASE a = "Mean" /\ vals.repr = "Floats"           -> mean_hash_f32(vals.data)
      [] a = "Mean" /\ vals.repr = "Bytes"            -> mean_hash_u8(vals.data)
      [] a = "Gradient"                               -> gradient_hash(vals.data, rs)
      [] a = "VertGradient"                           -> vert_gradient_hash(vals.data, rs)
      [] a = "DoubleGradient"                         -> double_gradient_hash(vals.data, rs)
      [] a = "Median" /\ vals.repr = "Floats"         -> median_hash_f32(vals.data)
      [] a = "Median" /\ vals.repr = "Bytes"          -> median_hash_u8(vals.data)
      [] a = "Blockhash"                              -> Panic("unreachable")

NoVals == [repr |-> "Bytes", data |-> <<>>]

NoHash == [by |-> "none", img |-> NoImage, width |-> u32(0), height |-> u32(0),
           order |-> "LsbFirst", bits |-> 0, bytes |-> <<>>]

NoCow == [tag |-> "Borrowed", img |-> NoImage]

\* requested hash sizes: small ones and the largest u32
DimInputs == { u32(n) : n \in 1..MaxDim } \cup {U32Max}

\* a buffer of w * h samples is small enough to be enumerated
Modelled(w, h) == w.hi = 0 /\ h.hi = 0 /\ w.lo <= MaxDim + 1 /\ h.lo <= MaxDim + 1

\* the configuration layer rounds the requested size before building the context
\* (no context is built when the rounding panics)
Init ==
    /\ alg \in HashAlg
    /\ bit_order \in BitOrder
    /\ build \in Builds
    /\ \E w \in DimInputs, h \in DimInputs :
          LET r == round_hash_size(alg, w, h, build)
          IN  r.ok /\ width = r.val[1] /\ height = r.val[2]
    /\ pc = HashImageOrder[1]
    /\ err = ""
    /\ calls = <<>>
    /\ image = Original
    /\ post_gauss = NoCow
    /\ grayscale = NoImage
    /\ resize = <<u32(0), u32(0)>>
    /\ blockhash_img = NoImage
    /\ hash_vals = NoVals
    /\ rowstride = 0
    /\ bools = Ok(<<>>)
    /\ hash = NoHash
    /\ shift = 0
    /\ bools_shifted = Ok(<<>>)
    /\ rounded = Ok(<<u32(0), u32(0)>>)

\* let post_gauss = ctxt.gauss_preproc(image); then the test for Blockhash
GaussPreproc ==
    /\ pc = "gauss_preproc"
    /\ \E blur \in BOOLEAN : post_gauss' = gauss_preproc(image, blur)
    /\ calls' = Append(calls, "gauss_preproc")
    /\ pc' = IF short_circuit(alg) THEN "blockhash" ELSE After("gauss_preproc")
    /\ UNCHANGED <<alg, width, height, bit_order, build, err, image, grayscale, resize,
                   blockhash_img, hash_vals, rowstride, bools, hash, shift,
                   bools_shifted, rounded>>

\* return blockhash::blockhash(img, width, height, bit_order)
Blockhash ==
    /\ pc = "blockhash"
    /\ blockhash_img' = blockhash_arg(post_gauss, image)
    /\ hash' = blockhash(blockhash_arg(post_gauss, image), width, height, bit_order)
    /\ calls' = Append(calls, "blockhash")
    /\ pc' = "done"
    /\ UNCHANGED <<alg, width, height, bit_order, build, err, image, post_gauss,
                   grayscale, resize, hash_vals, rowstride, bools, shift,
                   bools_shifted, rounded>>

\* let grayscale = post_gauss.to_grayscale()
ToGrayscale ==
    /\ pc = "to_grayscale"
    /\ grayscale' = to_grayscale(post_gauss)
    /\ calls' = Append(calls, "to_grayscale")
    /\ pc' = After("to_grayscale")
    /\ UNCHANGED <<alg, width, height, bit_order, build, err, image, post_gauss, resize,
                   blockhash_img, hash_vals, rowstride, bools, hash, shift,
                   bools_shifted, rounded>>

\* let (resize_width, resize_height) = self.resize_dimensions(width, height)
ResizeDimensions ==
    /\ pc = "resize_dimensions"
    /\ LET r == resize_dimensions(alg, width, height, build)
       IN  /\ resize' = IF r.ok THEN r.val ELSE resize
           /\ err' = r.msg
           /\ pc' = IF r.ok THEN After("resize_dimensions") ELSE "panic"
    /\ calls' = Append(calls, "resize_dimensions")
    /\ UNCHANGED <<alg, width, height, bit_order, build, image, post_gauss, grayscale,
                   blockhash_img, hash_vals, rowstride, bools, hash, shift,
                   bools_shifted, rounded>>

\* let hash_vals = ctxt.calc_hash_vals(..); let rowstride = resize_width as usize
CalcHashVals ==
    /\ pc = "calc_hash_vals"
    /\ Modelled(resize[1], resize[2])
    /\ hash_vals' \in calc_hash_vals(as_usize(resize[1]), as_usize(resize[2]))
    /\ rowstride' = as_usize(resize[1])
    /\ calls' = Append(calls, "calc_hash_vals")
    /\ pc' = After("calc_hash_vals")
    /\ UNCHANGED <<alg, width, height, bit_order, build, err, image, post_gauss,
                   grayscale, resize, blockhash_img, bools, hash, shift,
                   bools_shifted, rounded>>

\* the match arm's primitive
Compare ==
    /\ pc = "compare"
    /\ LET r == compare(alg, hash_vals, rowstride)
       IN  /\ bools' = r
           /\ err' = r.msg
           /\ pc' = IF r.ok THEN After("compare") ELSE "panic"
    /\ calls' = Append(calls, "compare")
    /\ UNCHANGED <<alg, width, height, bit_order, build, image, post_gauss, grayscale,
                   resize, blockhash_img, hash_vals, rowstride, hash, shift,
                   bools_shifted, rounded>>

\* B::from_bools(.., bit_order)
FromBools ==
    /\ pc = "from_bools"
    /\ hash' = from_bools(bools.val, bit_order)
    /\ calls' = Append(calls, "from_bools")
    /\ pc' = "done"
    /\ UNCHANGED <<alg, width, height, bit_order, build, err, image, post_gauss,
                   grayscale, resize, blockhash_img, hash_vals, rowstride, bools, shift,
                   bools_shifted, rounded>>

Next ==
    \/ GaussPreproc
    \/ Blockhash
    \/ ToGrayscale
    \/ ResizeDimensions
    \/ CalcHashVals
    \/ Compare
    \/ FromBools

Spec == Init /\ [][Next]_vars

----------------------------------------------------------------------------
(* One comparison primitive on an arbitrary buffer, then the packer *)

\* buffers named by the documented scenarios, a 2 x 3 / 3 x 2 grid, the top of u8
ScenarioBuffers ==
    { <<1, 2, 3, 4>>, <<10, 20, 30, 40, 50, 60, 70, 80>>, <<3, 1, 2, 2, 0, 1>>,
      <<255, 254, 255>> }

Buffers == UNION { [1..n -> 0..MaxSample] : n \in 0..MaxLen } \cup ScenarioBuffers

\* every sample brighter by c
Shifted(luma, c) == [i \in 1..Len(luma) |-> luma[i] + c]

\* the shifted samples are still u8
ShiftOK(luma, c) == \A i \in 1..Len(luma) : luma[i] + c < U8Modulus

InitPrim ==
    /\ alg = "none"
    /\ bit_order \in BitOrder
    /\ build = "release"
    /\ width = u32(0)
    /\ height = u32(0)
    /\ pc = "prim"
    /\ err = ""
    /\ calls = <<>>
    /\ image = NoImage
    /\ post_gauss = NoCow
    /\ grayscale = NoImage
    /\ resize = <<u32(0), u32(0)>>
    /\ blockhash_img = NoImage
    /\ \E r \in {"Bytes", "Floats"}, b \in Buffers : hash_vals = [repr |-> r, data |-> b]
    /\ rowstride = 0
    /\ bools = Ok(<<>>)
    /\ hash = NoHash
    /\ shift = 0
    /\ bools_shifted = Ok(<<>>)
    /\ rounded = Ok(<<u32(0), u32(0)>>)

\* primitive a has returned r on the buffer and rs on the buffer shifted by c
Applied(a, rs, c, r, rshifted) ==
    /\ alg' = a
    /\ rowstride' = rs
    /\ shift' = c
    /\ bools' = r
    /\ bools_shifted' = rshifted
    /\ err' = r.msg
    /\ calls' = Append(calls, "compare")
    /\ pc' = IF r.ok THEN "from_bools" ELSE "panic"
    /\ UNCHANGED <<width, height, bit_order, build, image, post_gauss, grayscale, resize,
                   blockhash_img, hash_vals, hash, rounded>>

MeanHashU8 ==
    /\ pc = "prim" /\ hash_vals.repr = "Bytes"
    /\ \E c \in 0..MaxShift :
          /\ ShiftOK(hash_vals.data, c)
          /\ Applied("Mean", 0, c, mean_hash_u8(hash_vals.data),
                     mean_hash_u8(Shifted(hash_vals.data, c)))

MeanHashF32 ==
    /\ pc = "prim" /\ hash_vals.repr = "Floats"
    /\ \E c \in 0..MaxShift :
          /\ ShiftOK(hash_vals.data, c)
          /\ Applied("Mean", 0, c, mean_hash_f32(hash_vals.data),
                     mean_hash_f32(Shifted(hash_vals.data, c)))

MedianHashU8 ==
    /\ pc = "prim" /\ hash_vals.repr = "Bytes"
    /\ \E c \in 0..MaxShift :
          /\ ShiftOK(hash_vals.data, c)
          /\ Applied("Median", 0, c, median_hash_u8(hash_vals.data),
                     median_hash_u8(Shifted(hash_vals.data, c)))

MedianHashF32 ==
    /\ pc = "prim" /\ hash_vals.repr = "Floats"
    /\ \E c \in 0..MaxShift :
          /\ ShiftOK(hash_vals.data, c)
          /\ Applied("Median", 0, c, median_hash_f32(hash_vals.data),
                     median_hash_f32(Shifted(hash_vals.data, c)))

GradientHash ==
    /\ pc = "prim"
    /\ \E rs \in 0..MaxStride, c \in 0..MaxShift :
          /\ ShiftOK(hash_vals.data, c)
          /\ Applied("Gradient", rs, c, gradient_hash(hash_vals.data, rs),
                     gradient_hash(Shifted(hash_vals.data, c), rs))

VertGradientHash ==
    /\ pc = "prim"
    /\ \E rs \in 0..MaxStride, c \in 0..MaxShift :
          /\ ShiftOK(hash_vals.data, c)
          /\ Applied("VertGradient", rs, c, vert_gradient_hash(hash_vals.data, rs),
                     vert_gradient_hash(Shifted(hash_vals.data, c), rs))

DoubleGradientHash ==
    /\ pc = "prim"
    /\ \E rs \in 0..MaxStride, c \in 0..MaxShift :
          /\ ShiftOK(hash_vals.data, c)
          /\ Applied("DoubleGradient", rs, c, double_gradient_hash(hash_vals.data, rs),
                     double_gradient_hash(Shifted(hash_vals.data, c), rs))

NextPrim ==
    \/ MeanHashU8
    \/ MeanHashF32
    \/ MedianHashU8
    \/ MedianHashF32
    \/ GradientHash
    \/ VertGradientHash
    \/ DoubleGradientHash
    \/ FromBools

SpecPrim == InitPrim /\ [][NextPrim]_vars

----------------------------------------------------------------------------
(* One call of round_hash_size *)

\* the smallest and the largest u32 values
RoundInputs ==
    { u32(n) : n \in 0..MaxRoundIn }
      \cup { [hi |-> Limb - 1, lo |-> Limb - k] : k \in 1..TopSpan }

InitRound ==
    /\ alg \in HashAlg
    /\ bit_order = "LsbFirst"
    /\ build \in Builds
    /\ width \in RoundInputs
    /\ height \in RoundInputs
    /\ pc = "round_hash_size"
    /\ err = ""
    /\ calls = <<>>
    /\ image = NoImage
    /\ post_gauss = NoCow
    /\ grayscale = NoImage
    /\ resize = <<u32(0), u32(0)>>
    /\ blockhash_img = NoImage
    /\ hash_vals = NoVals
    /\ rowstride = 0
    /\ bools = Ok(<<>>)
    /\ hash = NoHash
    /\ shift = 0
    /\ bools_shifted = Ok(<<>>)
    /\ rounded = Ok(<<u32(0), u32(0)>>)

RoundHashSize ==
    /\ pc = "round_hash_size"
    /\ LET r == round_hash_size(alg, width, height, build)
       IN  /\ rounded' = r
           /\ err' = r.msg
           /\ pc' = IF r.ok THEN "done" ELSE "panic"
    /\ calls' = Append(calls, "round_hash_size")
    /\ UNCHANGED <<alg, width, height, bit_order, build, image, post_gauss, grayscale,
                   resize, blockhash_img, hash_vals, rowstride, bools, hash, shift,
                   bools_shifted>>

NextRound == RoundHashSize

SpecRound == InitRound /\ [][NextRound]_vars

----------------------------------------------------------------------------
(* Properties *)

\* the position of the first call of f in the call log, 0 when it was not called
Pos(f) ==
    IF \E i \in 1..Len(calls) : calls[i] = f
    THEN CHOOSE i \in 1..Len(calls) : calls[i] = f /\ \A j \in 1..(i - 1) : calls[j] # f
    ELSE 0

Called(f) == Pos(f) > 0

\* a primitive has returned its booleans (they are being, or have been, packed)
Returned == pc \in {"from_bools", "done"} /\ Called("compare")

ExpectedLen(a, w, h) ==
    IF a = "DoubleGradient"
    THEN LET S == w \div 2 + 1
             R == h \div 2 + 1
         IN  R * (S - 1) + S * (R - 1)
    ELSE w * h

\* n is the expected number of booleans for hash size w x h (u32). A size with
\* a dimension of 2^15 or more expects at least 2^14 booleans, more than any
\* sequence a modelled buffer yields.
HasExpectedLen(n, a, w, h) ==
    /\ w.hi = 0 /\ w.lo < 2 ^ 15
    /\ h.hi = 0 /\ h.lo < 2 ^ 15
    /\ n = ExpectedLen(a, w.lo, h.lo)

AtLeastOne(x) == x.hi > 0 \/ x.lo >= 1

\* C1: when calc_hash_vals returns resize_width * resize_height samples, the
\* booleans hash_image hands to the packer number W*H for Mean, Median, Gradient
\* and VertGradient and R*(S-1) + S*(R-1), S = W/2+1, R = H/2+1, for
\* DoubleGradient, for both sample representations and both bit orders.
C1_BoolLength ==
    (/\ Returned
     /\ alg # "Blockhash"
     /\ AtLeastOne(width) /\ AtLeastOne(height)
     /\ Len(hash_vals.data) = as_usize(resize[1]) * as_usize(resize[2]))
    => /\ bools.ok
       /\ HasExpectedLen(Len(bools.val), alg, width, height)

\* C1 for the hash sizes whose resize dimensions do not overflow u32: the
\* counts of C1 hold there.
C1_BoolLengthNoOverflow ==
    (/\ Returned
     /\ alg # "Blockhash"
     /\ AtLeastOne(width) /\ AtLeastOne(height)
     /\ width # U32Max /\ height # U32Max
     /\ Len(hash_vals.data) = as_usize(resize[1]) * as_usize(resize[2]))
    => /\ bools.ok
       /\ HasExpectedLen(Len(bools.val), alg, width, height)
       /\ pc = "done" => hash.bits = Len(bools.val)

C3_NoResizeForBlockhash ==
    /\ Called("resize_dimensions") => alg # "Blockhash"
    /\ alg = "Blockhash"
         => /\ ~Called("to_grayscale")
            /\ ~Called("resize_dimensions")
            /\ ~Called("calc_hash_vals")
            /\ ~Called("compare")
            /\ pc \in {"gauss_preproc", "blockhash", "done"}
    /\ err \notin {"Blockhash algorithm does not resize", "unreachable"}

C3_Witness ==
    /\ alg = "Blockhash"
    /\ pc = "done"
    /\ calls = <<"gauss_preproc", "blockhash">>
    /\ hash.by = "blockhash"

\* C4 as stated: for a non-Blockhash algorithm the call of resize_dimensions
\* precedes the calls of gauss_preproc, to_grayscale and calc_hash_vals.
C4_ResizeBeforePreprocessing ==
    alg # "Blockhash"
    => \A f \in {"gauss_preproc", "to_grayscale", "calc_hash_vals"} :
          Called(f) => (Called("resize_dimensions") /\ Pos("resize_dimensions") < Pos(f))

\* C4 amended: for a non-Blockhash algorithm the call of resize_dimensions
\* follows the calls of gauss_preproc and to_grayscale and precedes the call of
\* calc_hash_vals.
C4_ResizeBeforeCalcOnly ==
    alg # "Blockhash"
    => /\ Called("resize_dimensions")
            => /\ Called("gauss_preproc") /\ Pos("gauss_preproc") < Pos("resize_dimensions")
               /\ Called("to_grayscale") /\ Pos("to_grayscale") < Pos("resize_dimensions")
       /\ Called("calc_hash_vals")
            => Called("resize_dimensions") /\ Pos("resize_dimensions") < Pos("calc_hash_vals")

C4_Witness ==
    /\ alg = "Gradient"
    /\ pc = "done"
    /\ calls = <<"gauss_preproc", "to_grayscale", "resize_dimensions", "calc_hash_vals",
                 "compare", "from_bools">>

\* the smallest multiple of m that is >= x, as a number (hi = 2^16 stands for 2^32)
RoundedUp(x, m) ==
    LET lo == x.lo + ((m - (x.lo % m)) % m)
    IN  [hi |-> x.hi + (lo \div Limb), lo |-> lo % Limb]

U32Le(x, y) == x.hi < y.hi \/ (x.hi = y.hi /\ x.lo <= y.lo)

RoundingOf(a) == IF a = "DoubleGradient" THEN 2 ELSE IF a = "Blockhash" THEN 4 ELSE 1

\* C5: round_hash_size is total over all u32 widths and heights: each returned
\* dimension is the smallest even number >= the input for DoubleGradient, the
\* smallest multiple of 4 >= the input for Blockhash, the input itself
\* otherwise, and never smaller than the input, also at the top of the range.
C5_RoundTotalAndUp ==
    pc # "round_hash_size"
    => /\ rounded.ok
       /\ rounded.val[1] = RoundedUp(width, RoundingOf(alg))
       /\ rounded.val[2] = RoundedUp(height, RoundingOf(alg))
       /\ U32Le(width, rounded.val[1])
       /\ U32Le(height, rounded.val[2])

GradientFamily == {"Gradient", "VertGradient", "DoubleGradient"}

\* C6: for every comparison primitive an empty buffer, or a buffer whose length
\* is not rows * rowstride for the rowstride passed in, aborts: no boolean
\* sequence is returned to the packer for such input.
C6_BadBufferAborts ==
    Returned
    => /\ Len(hash_vals.data) > 0
       /\ alg \in GradientFamily
            => rowstride > 0 /\ Len(hash_vals.data) % rowstride = 0

MedianScenario ==
    /\ Returned
    /\ alg = "Median"
    /\ hash_vals = [repr |-> "Bytes", data |-> <<1, 2, 3, 4>>]

\* C7 as stated: median hash over the u8 buffer [1,2,3,4] uses the median
\* (2+3)/2 = 2 and emits [F,F,T,T].
C7_MedianScenarioFFTT ==
    MedianScenario
    => /\ median_u8(hash_vals.data).val = 2
       /\ bools.val = <<FALSE, FALSE, TRUE, TRUE>>

\* C7 amended: median hash over the u8 buffer [1,2,3,4] uses the median
\* (2+3)/2 = 2 and, comparing sample >= median, emits [F,T,T,T].
C7_MedianScenarioFTTT ==
    MedianScenario
    => /\ median_u8(hash_vals.data).val = 2
       /\ bools.val = <<FALSE, TRUE, TRUE, TRUE>>
       /\ \A i \in 1..4 : bools.val[i] = (hash_vals.data[i] >= 2)

C7_Witness == MedianScenario /\ pc = "done" /\ bools.val[2]

\* C8 as stated: among the inputs a primitive can be started on, some non-empty
\* u8 buffer and in-range shift change the mean hash, some change the median
\* hash, and none changes the gradient hash.
C8_MeanMedianShiftSensitive ==
    pc = "prim"
    => /\ \E b \in Buffers \ {<<>>}, c \in 0..MaxShift :
             ShiftOK(b, c) /\ mean_hash_u8(Shifted(b, c)).val # mean_hash_u8(b).val
       /\ \E b \in Buffers \ {<<>>}, c \in 0..MaxShift :
             ShiftOK(b, c) /\ median_hash_u8(Shifted(b, c)).val # median_hash_u8(b).val
       /\ \A b \in Buffers, rs \in 1..MaxStride, c \in 0..MaxShift :
             ShiftOK(b, c) => gradient_hash(Shifted(b, c), rs).val = gradient_hash(b, rs).val

\* C8 amended: mean hash and median hash over u8 buffers are invariant to a
\* uniform additive shift that keeps every sample within 0..255, and so is
\* gradient_hash for every buffer, rowstride and shift.
C8_ShiftInvariant ==
    (/\ Returned
     /\ \/ alg \in {"Mean", "Median"} /\ hash_vals.repr = "Bytes"
        \/ alg = "Gradient")
    => /\ bools_shifted.ok
       /\ bools_shifted.val = bools.val

C8_Witness ==
    /\ Returned
    /\ alg = "Mean" /\ hash_vals.repr = "Bytes"
    /\ shift > 0
    /\ \E i, j \in 1..Len(bools.val) : bools.val[i] /\ ~bools.val[j]

MeanScenario ==
    /\ Returned
    /\ alg = "Mean"
    /\ hash_vals = [repr |-> "Bytes", data |-> <<10, 20, 30, 40, 50, 60, 70, 80>>]

\* bit b of byte v
BitSet(v, b) == (v \div (2 ^ b)) % 2 = 1

\* C9: mean hash over a u8 buffer emits sample >= floor(sum / length) per sample
\* in buffer order; for [10,20,30,40,50,60,70,80] the mean is 45, the booleans
\* are [F,F,F,F,T,T,T,T], and packing (i-th boolean to bit i mod 8 for LsbFirst,
\* bit 7 - (i mod 8) for MsbFirst) gives 0xF0 under LsbFirst, 0x0F under MsbFirst.
C9_MeanScenario ==
    (Returned /\ alg = "Mean" /\ hash_vals.repr = "Bytes")
    => LET luma == hash_vals.data
           n == Len(luma)
       IN  /\ Len(bools.val) = n
           /\ \A i \in 1..n : bools.val[i] = (luma[i] >= Sum(luma) \div n)
           /\ pc = "done"
                => /\ hash.bits = n
                   /\ \A i \in 0..(n - 1) :
                         BitSet(hash.bytes[i \div 8 + 1],
                                IF bit_order = "LsbFirst" THEN i % 8 ELSE 7 - (i % 8))
                           = bools.val[i + 1]
           /\ MeanScenario
                => /\ Sum(luma) \div n = 45
                   /\ bools.val = <<FALSE, FALSE, FALSE, FALSE, TRUE, TRUE, TRUE, TRUE>>
                   /\ pc = "done"
                        => hash.bytes = IF bit_order = "LsbFirst" THEN <<240>> ELSE <<15>>

C9_Witness ==
    /\ MeanScenario
    /\ pc = "done"
    /\ bit_order = "MsbFirst"
    /\ hash.bytes = <<15>>

\* buf[r*S+c] < buf[r*S+c+1], rows top to bottom, columns left to right
RowGradient(buf, S, R) ==
    [k \in 1..(R * (S - 1)) |->
        LET r == (k - 1) \div (S - 1)
            c == (k - 1) % (S - 1)
        IN  buf[r * S + c + 1] < buf[r * S + c + 2]]

\* buf[r*S+c] < buf[(r+1)*S+c], columns left to right, each top to bottom
ColGradient(buf, S, R) ==
    [k \in 1..(S * (R - 1)) |->
        LET c == (k - 1) \div (R - 1)
            r == (k - 1) % (R - 1)
        IN  buf[r * S + c + 1] < buf[(r + 1) * S + c + 1]]

\* C10: for every buffer of R*S samples, R >= 1, S >= 1, double_gradient_hash
\* is gradient_hash followed by vert_gradient_hash, where gradient_hash emits
\* buf[r*S+c] < buf[r*S+c+1] row by row with no comparison across a row
\* boundary and vert_gradient_hash emits buf[r*S+c] < buf[(r+1)*S+c] column by
\* column, each column top to bottom.
C10_DoubleIsRowThenColumn ==
    (/\ Returned
     /\ alg \in GradientFamily
     /\ rowstride >= 1
     /\ Len(hash_vals.data) >= 1
     /\ Len(hash_vals.data) % rowstride = 0)
    => LET buf == hash_vals.data
           S == rowstride
           R == Len(buf) \div S
       IN  /\ alg = "Gradient" => bools.val = RowGradient(buf, S, R)
           /\ alg = "VertGradient" => bools.val = ColGradient(buf, S, R)
           /\ alg = "DoubleGradient"
                => /\ bools.val = RowGradient(buf, S, R) \o ColGradient(buf, S, R)
                   /\ bools.val = gradient_hash(buf, S).val \o vert_gradient_hash(buf, S).val

C10_Witness ==
    /\ Returned
    /\ alg = "DoubleGradient"
    /\ rowstride = 3
    /\ hash_vals.data = <<3, 1, 2, 2, 0, 1>>
    /\ bools.val = <<FALSE, TRUE, FALSE, TRUE, FALSE, FALSE, FALSE>>

====
